---- MODULE Spec2Model ----
(***************************************************************************)
(* Model of antiopa's module orchestration (module_manager/module.go) and  *)
(* of its helm client (helm/helm.go).                                      *)
(*                                                                         *)
(* Strings are sequences of one-character (or one-word) tokens, so that    *)
(* trimming, splitting, formatting and parsing are computed, not assumed.  *)
(***************************************************************************)
EXTENDS Integers, Sequences, FiniteSets, TLC

VARIABLES
    configMaps,   \* the ConfigMaps of the antiopa namespace (tiller's release storage)
    ret,          \* the last helm client call: its arguments, what it saw and what it returned
    globalConfigValues,          \* layer 1: modules/values.yaml
    globalModulesConfigValues,   \* layer 2: each module's values.yaml, by module name
    kubeConfigValues,            \* layer 3: values from the cluster
    kubeModulesConfigValues,     \* layer 4: module values from the cluster, by module name
    dynamicValues,               \* layer 5: values written by hooks
    modulesDynamicValues,        \* layer 6: module values written by hooks, by module name
    valuesFile,   \* the values files dumped to TempDir, by module name
    modulesOrder, \* the names of the enabled modules, in the order they are run
    chartFile,    \* whether each module's directory holds a Chart.yaml
    cur,          \* the module being run: its index in modulesOrder, 0 before the first
    stage,        \* where Module.run is: a stage of RunStages, "idle", "done" or "crashed"
    hookIdx,      \* the hook the loop of a hook stage is at, 0 before the hooks are looked up
    result,       \* what Module.run returns: the error, and the stage and hook it came from
    log,          \* what the run of the current module did so far, in order
    seen,         \* whether the chart was there when cleanup and exec looked
    upgradeValues,\* the values file each module's helm upgrade was given
    dynAtBefore,  \* the dynamic values as they stood when the BeforeHelm hooks were through
    modulesRoot,  \* the entries of the directory WorkingDir/modules
    processDir,   \* the working directory of the process
    modulesByName,            \* the registered modules, by module name
    modulesHooksOrderByName,  \* the names of the modules whose hooks are initialised
    discovery     \* the last initModules: what it ran, saw and returned

helmVars == <<configMaps, ret>>
staticVars == <<globalConfigValues, globalModulesConfigValues, kubeConfigValues,
                kubeModulesConfigValues>>
valueVars == <<globalConfigValues, globalModulesConfigValues, kubeConfigValues,
               kubeModulesConfigValues, dynamicValues, modulesDynamicValues, valuesFile>>
runVars == <<modulesOrder, chartFile, cur, stage, hookIdx, result, log, seen,
             upgradeValues, dynAtBefore>>
initVars == <<modulesRoot, processDir, modulesByName, modulesHooksOrderByName, discovery>>
vars == <<configMaps, ret, valueVars, runVars, initVars>>

----------------------------------------------------------------------------
(* Bounds *)

MaxRev == 5        \* the revisions 1..MaxRev can be in a release's history
MaxFailed == 4     \* most FAILED records a release starts with
MaxErrLen == 3     \* most tokens of a backend stderr
MaxLeaves == 3     \* most leaves the six value layers start with, taken together
MaxHooks == 2      \* hooks of module a for each binding
MaxVal == 2        \* the scalars a hook can write are 1..MaxVal
MaxDirs == 3       \* most entries of the modules directory
MaxFurnished == 1  \* most module directories with an `enabled` or a values.yaml
MaxDiscoveries == 2   \* most calls of initModules

----------------------------------------------------------------------------
(* Strings *)

SP == "SP"
TAB == "TAB"
NL == "NL"
WhiteSpace == {SP, TAB, NL}

RECURSIVE TrimLeft(_)
TrimLeft(s) ==
    IF s # <<>> /\ Head(s) \in WhiteSpace THEN TrimLeft(Tail(s)) ELSE s

RECURSIVE TrimRight(_)
TrimRight(s) ==
    IF s # <<>> /\ s[Len(s)] \in WhiteSpace
    THEN TrimRight(SubSeq(s, 1, Len(s) - 1))
    ELSE s

\* strings.TrimSpace
TrimSpace(s) == TrimRight(TrimLeft(s))

\* strings.Contains(s, tok) for a one-token needle
Contains(s, tok) == \E i \in 1..Len(s) : s[i] = tok

\* index of the first sep in s at or after i, 0 if there is none
RECURSIVE IndexFrom(_, _, _)
IndexFrom(s, sep, i) ==
    IF i > Len(s) THEN 0
    ELSE IF s[i] = sep THEN i
    ELSE IndexFrom(s, sep, i + 1)

IndexOf(s, sep) == IndexFrom(s, sep, 1)

\* strings.SplitN(s, sep, n) for n > 0: at most n pieces, the last one unsplit
RECURSIVE SplitN(_, _, _)
SplitN(s, sep, n) ==
    LET i == IndexOf(s, sep)
    IN IF n = 1 \/ i = 0
       THEN <<s>>
       ELSE <<SubSeq(s, 1, i - 1)>> \o SplitN(SubSeq(s, i + 1, Len(s)), sep, n - 1)

\* strings.Split(s, sep)
Split(s, sep) == SplitN(s, sep, Len(s) + 1)

DigitChars == <<"0", "1", "2", "3", "4", "5", "6", "7", "8", "9">>
IsDigit(c) == \E d \in 1..Len(DigitChars) : DigitChars[d] = c
DigitValue(c) == (CHOOSE d \in 1..Len(DigitChars) : DigitChars[d] = c) - 1

\* fmt's %d of a non-negative integer, as characters
RECURSIVE Itoa(_)
Itoa(n) ==
    IF n < 10 THEN <<DigitChars[n + 1]>>
    ELSE Itoa(n \div 10) \o <<DigitChars[(n % 10) + 1]>>

\* strconv.Atoi of a string of digits
RECURSIVE Atoi(_)
Atoi(s) ==
    IF s = <<>> THEN 0
    ELSE 10 * Atoi(SubSeq(s, 1, Len(s) - 1)) + DigitValue(s[Len(s)])

\* the byte order of the characters that occur in ConfigMap and directory names
Alphabet == <<"-", ".", "0", "1", "2", "3", "4", "5", "6", "7", "8", "9",
              "a", "b", "c", "d", "f", "o", "r", "v", "z">>
Ord(c) == CHOOSE i \in 1..Len(Alphabet) : Alphabet[i] = c

\* s < t in Go's string order
RECURSIVE StrLess(_, _)
StrLess(s, t) ==
    IF t = <<>> THEN FALSE
    ELSE IF s = <<>> THEN TRUE
    ELSE IF Head(s) # Head(t) THEN Ord(Head(s)) < Ord(Head(t))
    ELSE StrLess(Tail(s), Tail(t))

\* sort.Strings of a set of distinct strings
RECURSIVE SortStrings(_)
SortStrings(S) ==
    IF S = {} THEN <<>>
    ELSE LET m == CHOOSE x \in S : \A y \in S \ {x} : StrLess(x, y)
         IN <<m>> \o SortStrings(S \ {m})

\* (faulty variant) the revisions stay in the order of the listing
Unsorted(s) == s

\* sort.Ints of a sequence of integers
RECURSIVE SortInts(_)
SortInts(s) ==
    IF s = <<>> THEN <<>>
    ELSE LET i == CHOOSE k \in 1..Len(s) : \A j \in 1..Len(s) : s[k] <= s[j]
         IN <<s[i]>> \o SortInts(SubSeq(s, 1, i - 1) \o SubSeq(s, i + 1, Len(s)))

Range(s) == {s[i] : i \in 1..Len(s)}

----------------------------------------------------------------------------
(* Tiller's release storage: ConfigMaps named <release>.v<revision> *)

TillerOwner == "TILLER"
Statuses == {"DEPLOYED", "FAILED", "SUPERSEDED"}
ReleaseNames == {"a", "b"}      \* release names are one letter

\* fmt.Sprintf("%s.v%d", releaseName, revision)
CmName(releaseName, revision) == <<releaseName, ".", "v">> \o Itoa(revision)

\* the record tiller stores for one revision of a release
TillerRecord(releaseName, revision, status) ==
    [name |-> CmName(releaseName, revision),
     labels |-> [NAME |-> releaseName, STATUS |-> status, OWNER |-> TillerOwner],
     hasRelease |-> TRUE]

IsHistoryRecord(cm, releaseName) ==
    /\ cm.hasRelease
    /\ DOMAIN cm.labels = {"NAME", "STATUS", "OWNER"}
    /\ cm.labels["OWNER"] = TillerOwner
    /\ cm.labels["NAME"] = releaseName

History(cms, releaseName) == {cm \in cms : IsHistoryRecord(cm, releaseName)}

\* number of digits s ends with
RECURSIVE TrailingDigits(_)
TrailingDigits(s) ==
    IF s # <<>> /\ IsDigit(s[Len(s)])
    THEN 1 + TrailingDigits(SubSeq(s, 1, Len(s) - 1))
    ELSE 0

\* regexp `^(.*).v([0-9]+)$`.FindStringSubmatch(cmName): <<>> when there is no
\* match, else <<whole, group 1, group 2>>. The dot before v matches any character.
ReleaseCmNameMatch(cmName) ==
    LET d == TrailingDigits(cmName)
        n == Len(cmName)
    IN IF d >= 1 /\ n - d >= 2 /\ cmName[n - d] = "v"
       THEN <<cmName, SubSeq(cmName, 1, n - d - 2), SubSeq(cmName, n - d + 1, n)>>
       ELSE <<>>

RevisionOf(cm) == Atoi(ReleaseCmNameMatch(cm.name)[3])

\* the record `helm history --max 1` shows: the one with the highest revision
LatestRecord(cms, releaseName) ==
    CHOOSE cm \in History(cms, releaseName) :
        \A other \in History(cms, releaseName) : RevisionOf(other) <= RevisionOf(cm)

LatestRevision(cms, releaseName) ==
    IF History(cms, releaseName) = {} THEN 0
    ELSE RevisionOf(LatestRecord(cms, releaseName))

\* kblabels.Set(labelsSet).AsSelector() applied to one ConfigMap
MatchesSelector(cm, labelsSet) ==
    \A k \in DOMAIN labelsSet :
        k \in DOMAIN cm.labels /\ cm.labels[k] = labelsSet[k]

----------------------------------------------------------------------------
(* The helm binary, as the client sees it *)

ErrorMarker == "Error:"
NotFoundMarker == "not found"
ErrTokens == {ErrorMarker, NotFoundMarker, "text", NL}

RECURSIVE SeqsUpTo(_, _)
SeqsUpTo(S, n) ==
    IF n = 0 THEN {<<>>}
    ELSE SeqsUpTo(S, n - 1)
            \cup {Append(s, x) : s \in {t \in SeqsUpTo(S, n - 1) : Len(t) = n - 1}, x \in S}

StderrUniverse == SeqsUpTo(ErrTokens, MaxErrLen)

HistoryHeader ==
    <<"REVISION", TAB, "UPDATED", SP, TAB, "STATUS", SP, TAB, "CHART", SP, TAB, "DESCRIPTION", SP>>

Descriptions == {<<"Install", SP, "complete">>, <<"Upgrade", TAB, "failed">>}

\* one row of helm's history table
HistoryRow(revision, status, description) ==
    Itoa(revision) \o <<SP, SP, TAB, "date", SP, TAB, status, SP, TAB, "chart", SP, TAB>>
        \o description

\* outputs of a history command that exits with code zero and shows no record
UnparsableStdouts == {<<>>, <<"1", TAB, "date", NL>>}

\* stderrs of a failing helm command, the not-found report among them
NotFoundStderr == <<ErrorMarker, "text", NotFoundMarker>>
StderrSamples == {NotFoundStderr, <<ErrorMarker, "text">>}

\* what `helm history <releaseName> --max 1` can write and exit with, its
\* stderr on a failure being one of stderrs
HelmHistoryOutcomes(cms, releaseName, stderrs) ==
    LET shown ==
            IF History(cms, releaseName) = {} THEN {}
            ELSE {[failed |-> FALSE,
                   stdout |-> HistoryHeader \o <<NL>>
                                \o HistoryRow(LatestRevision(cms, releaseName),
                                              LatestRecord(cms, releaseName).labels["STATUS"], d)
                                \o <<NL>>,
                   stderr |-> <<>>] : d \in Descriptions}
        failures == {[failed |-> TRUE, stdout |-> <<>>, stderr |-> e] : e \in stderrs}
        garbled == {[failed |-> FALSE, stdout |-> o, stderr |-> <<>>] : o \in UnparsableStdouts}
    IN shown \cup failures \cup garbled

\* the release is absent and helm says so
IsNotFoundReport(raw) ==
    raw.failed /\ raw.stderr = NotFoundStderr

----------------------------------------------------------------------------
(* helm.go *)

NoError == "nil"

\* CliHelm.Cmd: runs the binary and trims what it wrote
Cmd(raw) ==
    [failed |-> raw.failed,
     stdout |-> TrimSpace(raw.stdout),
     stderr |-> TrimSpace(raw.stderr)]

\* (faulty variant) the markers are looked for in the whole stderr, not in its first line
LastReleaseStatusAnyLine(raw) ==
    LET out == Cmd(raw)
        historyLines == Split(out.stdout, NL)
        lastLine == historyLines[Len(historyLines)]
        fields == SplitN(lastLine, TAB, 5)
    IN IF out.failed
       THEN IF Contains(out.stderr, ErrorMarker) /\ Contains(out.stderr, NotFoundMarker)
            THEN [revision |-> <<"0">>, status |-> <<>>, err |-> "release not found",
                  panic |-> FALSE]
            ELSE [revision |-> <<>>, status |-> <<>>, err |-> "cannot get history",
                  panic |-> FALSE]
       ELSE IF Len(fields) < 3
            THEN [revision |-> <<>>, status |-> <<>>, err |-> NoError, panic |-> TRUE]
            ELSE [revision |-> TrimSpace(fields[1]), status |-> TrimSpace(fields[3]),
                  err |-> NoError, panic |-> FALSE]

\* CliHelm.LastReleaseStatus, given what the history command produced
LastReleaseStatus(raw) ==
    LET out == Cmd(raw)
        errLine == Split(out.stderr, NL)[1]
        historyLines == Split(out.stdout, NL)
        lastLine == historyLines[Len(historyLines)]
        fields == SplitN(lastLine, TAB, 5)
    IN IF out.failed
       THEN IF Contains(errLine, ErrorMarker) /\ Contains(errLine, NotFoundMarker)
            THEN [revision |-> <<"0">>, status |-> <<>>, err |-> "release not found",
                  panic |-> FALSE]
            ELSE [revision |-> <<>>, status |-> <<>>, err |-> "cannot get history",
                  panic |-> FALSE]
       ELSE IF Len(fields) < 3
            THEN [revision |-> <<>>, status |-> <<>>, err |-> NoError, panic |-> TRUE]
            ELSE [revision |-> TrimSpace(fields[1]), status |-> TrimSpace(fields[3]),
                  err |-> NoError, panic |-> FALSE]

\* CliHelm.DeleteRelease, given whether `helm delete --purge` succeeded
DeleteRelease(deleteOk) ==
    IF deleteOk THEN NoError ELSE "helm delete --purge invocation error"

\* (faulty variant) every FAILED latest revision is deleted, whatever its number
DeleteAnyFailedRevision(raw, deleteOk) ==
    LET last == LastReleaseStatus(raw)
    IN IF last.panic
       THEN [err |-> NoError, deleteIssued |-> FALSE, panic |-> TRUE]
       ELSE IF last.err # NoError
       THEN IF last.revision = <<"0">>
            THEN [err |-> NoError, deleteIssued |-> FALSE, panic |-> FALSE]
            ELSE [err |-> last.err, deleteIssued |-> FALSE, panic |-> FALSE]
       ELSE IF last.status = <<"FAILED">>
            THEN [err |-> DeleteRelease(deleteOk), deleteIssued |-> TRUE, panic |-> FALSE]
            ELSE [err |-> NoError, deleteIssued |-> FALSE, panic |-> FALSE]

\* (faulty variant) a release that is not found is an error like any other
DeleteSingleFailedRevisionStrict(raw, deleteOk) ==
    LET last == LastReleaseStatus(raw)
    IN IF last.panic
       THEN [err |-> NoError, deleteIssued |-> FALSE, panic |-> TRUE]
       ELSE IF last.err # NoError
       THEN [err |-> last.err, deleteIssued |-> FALSE, panic |-> FALSE]
       ELSE IF last.revision = <<"1">> /\ last.status = <<"FAILED">>
            THEN [err |-> DeleteRelease(deleteOk), deleteIssued |-> TRUE, panic |-> FALSE]
            ELSE [err |-> NoError, deleteIssued |-> FALSE, panic |-> FALSE]

\* CliHelm.DeleteSingleFailedRevision, given the history output and whether a
\* delete would succeed: the error returned and whether a delete was issued
DeleteSingleFailedRevision(raw, deleteOk) ==
    LET last == LastReleaseStatus(raw)
    IN IF last.panic
       THEN [err |-> NoError, deleteIssued |-> FALSE, panic |-> TRUE]
       ELSE IF last.err # NoError
       THEN IF last.revision = <<"0">>
            THEN [err |-> NoError, deleteIssued |-> FALSE, panic |-> FALSE]
            ELSE [err |-> last.err, deleteIssued |-> FALSE, panic |-> FALSE]
       ELSE IF last.revision = <<"1">> /\ last.status = <<"FAILED">>
            THEN [err |-> DeleteRelease(deleteOk), deleteIssued |-> TRUE, panic |-> FALSE]
            ELSE [err |-> NoError, deleteIssued |-> FALSE, panic |-> FALSE]

\* (faulty variant) every failure of the status query reads as "no such release"
IsReleaseExistsSwallowing(raw) ==
    LET last == LastReleaseStatus(raw)
    IN IF last.panic THEN [exists |-> FALSE, err |-> NoError, panic |-> TRUE]
       ELSE IF last.err # NoError
       THEN [exists |-> FALSE, err |-> NoError, panic |-> FALSE]
       ELSE [exists |-> TRUE, err |-> NoError, panic |-> FALSE]

\* CliHelm.IsReleaseExists, given what the history command produced; a panic of
\* LastReleaseStatus goes through it
IsReleaseExists(raw) ==
    LET last == LastReleaseStatus(raw)
    IN IF last.panic THEN [exists |-> FALSE, err |-> NoError, panic |-> TRUE]
       ELSE IF last.err # NoError /\ last.revision = <<"0">>
       THEN [exists |-> FALSE, err |-> NoError, panic |-> FALSE]
       ELSE IF last.err # NoError
       THEN [exists |-> FALSE, err |-> last.err, panic |-> FALSE]
       ELSE [exists |-> TRUE, err |-> NoError, panic |-> FALSE]

\* what a successful `helm delete --purge` leaves in the storage
Purged(cms, releaseName) == cms \ History(cms, releaseName)

\* (faulty variant) an OWNER the caller asks for is kept
ListReleasesCallerOwner(cms, labelSelector) ==
    LET labelsSet == [k \in DOMAIN labelSelector \cup {"OWNER"} |->
                        IF k \in DOMAIN labelSelector THEN labelSelector[k]
                        ELSE TillerOwner]
    IN SortStrings({cm.name : cm \in {c \in cms : MatchesSelector(c, labelsSet)
                                                    /\ c.hasRelease}})

\* CliHelm.ListReleases over the ConfigMaps the API server returns
ListReleases(cms, labelSelector) ==
    LET labelsSet == [k \in DOMAIN labelSelector \cup {"OWNER"} |->
                        IF k = "OWNER" THEN TillerOwner ELSE labelSelector[k]]
    IN SortStrings({cm.name : cm \in {c \in cms : MatchesSelector(c, labelsSet)
                                                    /\ c.hasRelease}})

\* the revisions DeleteOldFailedRevisions parses out of the listed names
RECURSIVE ParsedRevisions(_)
ParsedRevisions(cmNames) ==
    IF cmNames = <<>> THEN <<>>
    ELSE (IF ReleaseCmNameMatch(Head(cmNames)) # <<>>
          THEN <<Atoi(ReleaseCmNameMatch(Head(cmNames))[3])>>
          ELSE <<>>) \o ParsedRevisions(Tail(cmNames))

\* Do not remove last FAILED revision
DropLast(revisions) ==
    IF Len(revisions) > 0 THEN SubSeq(revisions, 1, Len(revisions) - 1) ELSE revisions

\* the revisions DeleteOldFailedRevisions sets out to delete, in order
OldFailedRevisions(cms, releaseName) ==
    DropLast(SortInts(ParsedRevisions(
        ListReleases(cms, [STATUS |-> "FAILED", NAME |-> releaseName]))))

\* the delete loop of DeleteOldFailedRevisions: the API server refuses the
\* failAt-th delete (0: none), and a delete of a missing ConfigMap is an error
RECURSIVE DeleteLoop(_, _, _, _, _)
DeleteLoop(cms, releaseName, revisions, failAt, i) ==
    IF i > Len(revisions)
    THEN [configMaps |-> cms, err |-> NoError]
    ELSE IF i = failAt \/ ~\E cm \in cms : cm.name = CmName(releaseName, revisions[i])
    THEN [configMaps |-> cms, err |-> "configmap delete error"]
    ELSE DeleteLoop({cm \in cms : cm.name # CmName(releaseName, revisions[i])},
                    releaseName, revisions, failAt, i + 1)

\* CliHelm.DeleteOldFailedRevisions
DeleteOldFailedRevisions(cms, releaseName, listOk, failAt) ==
    IF ~listOk
    THEN [configMaps |-> cms, err |-> "configmap list error"]
    ELSE DeleteLoop(cms, releaseName, OldFailedRevisions(cms, releaseName), failAt, 1)

\* the record of a call of the helm client; NoCall between two calls
NoRaw == [failed |-> FALSE, stdout |-> <<>>, stderr |-> <<>>]
NoPrev == [cleanupOf |-> "-", err |-> NoError, deleteIssued |-> FALSE, unchanged |-> TRUE]

NoCall ==
    [op |-> "none", releaseName |-> "-", raw |-> NoRaw, faithful |-> FALSE,
     revision |-> <<>>, status |-> <<>>, err |-> NoError, panic |-> FALSE,
     deleteIssued |-> FALSE, failAt |-> 0, pre |-> {}, prev |-> NoPrev,
     exists |-> FALSE, selector |-> <<>>, names |-> <<>>]

----------------------------------------------------------------------------
(* Values: mappings from keys to scalars or to nested mappings *)

EmptyValues == <<>>
Scalar(n) == [isMap |-> FALSE, scalar |-> n, map |-> EmptyValues]
Mapping(m) == [isMap |-> TRUE, scalar |-> 0, map |-> m]

\* merge_values: the second mapping over the first; mappings under the same key
\* are merged key by key, anything else is replaced
RECURSIVE MergeTwo(_, _)
MergeTwo(a, b) ==
    [k \in DOMAIN a \cup DOMAIN b |->
        IF k \notin DOMAIN b THEN a[k]
        ELSE IF k \notin DOMAIN a THEN b[k]
        ELSE IF a[k].isMap /\ b[k].isMap THEN Mapping(MergeTwo(a[k].map, b[k].map))
        ELSE b[k]]

\* merge_values.MergeValues(layers...)
RECURSIVE MergeValues(_)
MergeValues(layers) ==
    IF layers = <<>> THEN EmptyValues
    ELSE MergeTwo(MergeValues(SubSeq(layers, 1, Len(layers) - 1)), layers[Len(layers)])

\* Go's byName[name] of a map of mappings: nil, an empty mapping, when absent
ValuesOf(byName, name) == IF name \in DOMAIN byName THEN byName[name] ELSE EmptyValues

\* (faulty variant) the cluster's values are merged over the values of the hooks
valuesClusterLast(name) ==
    MergeValues(<<globalConfigValues,
                  ValuesOf(globalModulesConfigValues, name),
                  dynamicValues,
                  ValuesOf(modulesDynamicValues, name),
                  kubeConfigValues,
                  ValuesOf(kubeModulesConfigValues, name)>>)

\* (faulty variant) the values of the hooks are left out
valuesWithoutDynamic(name) ==
    MergeValues(<<globalConfigValues,
                  ValuesOf(globalModulesConfigValues, name),
                  kubeConfigValues,
                  ValuesOf(kubeModulesConfigValues, name)>>)

\* Module.values of the module called name
values(name) ==
    MergeValues(<<globalConfigValues,
                  ValuesOf(globalModulesConfigValues, name),
                  kubeConfigValues,
                  ValuesOf(kubeModulesConfigValues, name),
                  dynamicValues,
                  ValuesOf(modulesDynamicValues, name)>>)

\* Module.prepareValuesPath with dumpValuesYaml: the files after the call and
\* the error, given whether the file could be written
prepareValuesPath(name, dumpOk) ==
    IF dumpOk
    THEN [files |-> [n \in DOMAIN valuesFile \cup {name} |->
                        IF n = name THEN values(name) ELSE valuesFile[n]],
          err |-> NoError]
    ELSE [files |-> valuesFile, err |-> "cannot dump values"]

NoValues ==
    /\ globalConfigValues = EmptyValues
    /\ globalModulesConfigValues = <<>>
    /\ kubeConfigValues = EmptyValues
    /\ kubeModulesConfigValues = <<>>
    /\ dynamicValues = EmptyValues
    /\ modulesDynamicValues = <<>>
    /\ valuesFile = <<>>

\* no module is being run
NoResult == [err |-> NoError, stage |-> "-", hook |-> 0]
NotSeen == [cleanup |-> "unchecked", exec |-> "unchecked"]
NoSnapshot == [global |-> EmptyValues, module |-> EmptyValues]

\* initModules has not been called
NoDiscovery ==
    [calls |-> 0, before |-> 0, err |-> NoError, offenders |-> <<>>, gate |-> <<>>]

\* the registry of modules plays no part
NoModules ==
    /\ modulesRoot = {}
    /\ processDir = <<>>
    /\ modulesByName = <<>>
    /\ modulesHooksOrderByName = {}
    /\ discovery = NoDiscovery

\* no module is registered yet and none is being run
NotRunning ==
    /\ modulesOrder = <<>>
    /\ chartFile = <<>>
    /\ cur = 0
    /\ stage = "idle"
    /\ hookIdx = 0
    /\ result = NoResult
    /\ log = <<>>
    /\ seen = NotSeen
    /\ upgradeValues = <<>>
    /\ dynAtBefore = NoSnapshot

NoRun == NotRunning /\ NoModules

----------------------------------------------------------------------------
(* Composition of the values of one module from every six layers *)

TopKeys == {"a", "b"}
SubKeys == {"x", "y"}
LeafPaths == {<<"a">>, <<"b">>} \cup {<<"a", k>> : k \in SubKeys}
LayerNumbers == 1..6

IsPrefix(p, q) == Len(p) <= Len(q) /\ SubSeq(q, 1, Len(p)) = p
Conflict(p, q) == IsPrefix(p, q) \/ IsPrefix(q, p)

\* the mapping whose leaves are at paths, each holding the scalar n
TreeOf(paths, n) ==
    [k \in {p[1] : p \in paths} |->
        IF <<k>> \in paths THEN Scalar(n)
        ELSE Mapping([j \in {p[2] : p \in {q \in paths : q[1] = k}} |-> Scalar(n)])]

\* a choice of leaves: pairs <<layer, path>>, no leaf of a layer under another
LeafChoices ==
    {L \in SUBSET (LayerNumbers \X LeafPaths) :
        /\ Cardinality(L) <= MaxLeaves
        /\ \A l1 \in L, l2 \in L :
               l1[1] = l2[1] /\ l1 # l2 => ~Conflict(l1[2], l2[2])}

LayerOf(L, i) == TreeOf({l[2] : l \in {x \in L : x[1] = i}}, i)
ByName(name, tree) == IF tree = EmptyValues THEN <<>> ELSE (name :> tree)

ValuesInit ==
    /\ \E L \in LeafChoices :
        /\ globalConfigValues = LayerOf(L, 1)
        /\ globalModulesConfigValues = ByName("a", LayerOf(L, 2))
        /\ kubeConfigValues = LayerOf(L, 3)
        /\ kubeModulesConfigValues = ByName("a", LayerOf(L, 4))
        /\ dynamicValues = LayerOf(L, 5)
        /\ modulesDynamicValues = ByName("a", LayerOf(L, 6))
    /\ valuesFile = <<>>
    /\ configMaps = {}
    /\ ret = NoCall
    /\ NoRun

\* a module's values are composed and dumped
ComposeValues(name) ==
    /\ \E dumpOk \in BOOLEAN : valuesFile' = prepareValuesPath(name, dumpOk).files
    /\ UNCHANGED <<globalConfigValues, globalModulesConfigValues, kubeConfigValues,
                   kubeModulesConfigValues, dynamicValues, modulesDynamicValues>>

ValuesNext == \E name \in ReleaseNames : ComposeValues(name)

SpecValues == ValuesInit /\ [][ValuesNext /\ UNCHANGED <<helmVars, runVars, initVars>>]_vars

----------------------------------------------------------------------------
(* Calls of the helm client against a release storage *)

\* what helm writes when it answers truthfully and legibly
FaithfulHistory(cms, releaseName) ==
    {raw \in HelmHistoryOutcomes(cms, releaseName, {NotFoundStderr}) :
        IF History(cms, releaseName) = {}
        THEN IsNotFoundReport(raw)
        ELSE ~raw.failed /\ raw.stdout \notin UnparsableStdouts}

\* the previous call, as far as a repeated cleanup of an absent release needs it
Remembered(call, cms) ==
    IF call.op = "DeleteSingleFailedRevision" /\ call.faithful
            /\ History(call.pre, call.releaseName) = {}
    THEN [cleanupOf |-> call.releaseName, err |-> call.err,
          deleteIssued |-> call.deleteIssued, unchanged |-> (cms = call.pre)]
    ELSE NoPrev

\* the histories a release storage starts with: FAILED records and at most one
\* DEPLOYED one for release a, at most one record of another release
\* 9 and 10 are there because "a.v10" sorts before "a.v9" as a string
HighRevs == {9, 10}
Revisions == (1..MaxRev) \cup HighRevs
FailedSets == {F \in SUBSET Revisions : Cardinality(F) <= MaxFailed}

Lowest(S) == CHOOSE x \in S : \A y \in S : x <= y
Highest(S) == CHOOSE x \in S : \A y \in S : y <= x

DeployedChoices(F) ==
    LET free == Revisions \ F
    IN IF free = {} THEN {{}} ELSE {{}, {Lowest(free)}, {Highest(free)}}

InitialStores ==
    UNION {
        {    {TillerRecord("a", n, "FAILED") : n \in F}
        \cup {TillerRecord("a", n, "DEPLOYED") : n \in D}
        \cup other :
            D \in DeployedChoices(F),
            other \in {{}, {TillerRecord("b", 1, "DEPLOYED")}, {TillerRecord("b", 1, "FAILED")}}}
        : F \in FailedSets}

HelmInit ==
    /\ configMaps \in InitialStores
    /\ ret = NoCall
    /\ NoValues
    /\ NoRun

\* the process is between two calls of the client
Idle == ret.op = "none"

CallDeleteSingleFailedRevision(releaseName) ==
    /\ Idle
    /\ \E raw \in HelmHistoryOutcomes(configMaps, releaseName, StderrSamples),
          deleteOk \in BOOLEAN :
        LET r == DeleteSingleFailedRevision(raw, deleteOk)
        IN /\ deleteOk \/ r.deleteIssued
           /\ configMaps' = IF r.deleteIssued /\ deleteOk
                            THEN Purged(configMaps, releaseName)
                            ELSE configMaps
           /\ ret' = [NoCall EXCEPT !.op = "DeleteSingleFailedRevision",
                                    !.releaseName = releaseName,
                                    !.faithful =
                                        raw \in FaithfulHistory(configMaps, releaseName),
                                    !.err = r.err, !.panic = r.panic,
                                    !.deleteIssued = r.deleteIssued,
                                    !.pre = configMaps, !.prev = ret.prev]

CallDeleteOldFailedRevisions(releaseName) ==
    /\ Idle
    /\ \E listOk \in BOOLEAN,
          failAt \in 0..Len(OldFailedRevisions(configMaps, releaseName)) :
        LET r == DeleteOldFailedRevisions(configMaps, releaseName, listOk, failAt)
        IN /\ listOk \/ failAt = 0
           /\ configMaps' = r.configMaps
           /\ ret' = [NoCall EXCEPT !.op = "DeleteOldFailedRevisions",
                                    !.releaseName = releaseName,
                                    !.err = r.err, !.failAt = failAt,
                                    !.pre = configMaps]

CallDeleteRelease(releaseName) ==
    /\ Idle
    /\ \E deleteOk \in BOOLEAN :
        /\ configMaps' = IF deleteOk THEN Purged(configMaps, releaseName) ELSE configMaps
        /\ ret' = [NoCall EXCEPT !.op = "DeleteRelease", !.releaseName = releaseName,
                                 !.err = DeleteRelease(deleteOk), !.deleteIssued = TRUE,
                                 !.pre = configMaps]

\* the caller takes the result; only what a repeated cleanup needs is kept
Return ==
    /\ ~Idle
    /\ ret' = [NoCall EXCEPT !.prev = Remembered(ret, configMaps)]
    /\ UNCHANGED configMaps

HelmNext ==
    \/ \E releaseName \in ReleaseNames :
        \/ CallDeleteSingleFailedRevision(releaseName)
        \/ CallDeleteOldFailedRevisions(releaseName)
        \/ CallDeleteRelease(releaseName)
    \/ Return

SpecHelm == HelmInit /\ [][HelmNext /\ UNCHANGED <<valueVars, runVars, initVars>>]_vars

----------------------------------------------------------------------------
(* Calls of LastReleaseStatus on every stderr a failing helm can write *)

StatusInit ==
    /\ configMaps \in {{},
                       {TillerRecord("a", 1, "FAILED")},
                       {TillerRecord("a", 1, "SUPERSEDED"), TillerRecord("a", 2, "DEPLOYED")}}
    /\ ret = NoCall
    /\ NoValues
    /\ NoRun

CallLastReleaseStatus(releaseName) ==
    /\ Idle
    /\ \E raw \in HelmHistoryOutcomes(configMaps, releaseName, StderrUniverse) :
        LET last == LastReleaseStatus(raw)
        IN ret' = [NoCall EXCEPT !.op = "LastReleaseStatus", !.releaseName = releaseName,
                                 !.raw = raw,
                                 !.faithful =
                                     raw \in FaithfulHistory(configMaps, releaseName),
                                 !.revision = last.revision, !.status = last.status,
                                 !.err = last.err, !.panic = last.panic,
                                 !.pre = configMaps]
    /\ UNCHANGED configMaps

CallIsReleaseExists(releaseName) ==
    /\ Idle
    /\ \E raw \in HelmHistoryOutcomes(configMaps, releaseName, StderrUniverse) :
        LET r == IsReleaseExists(raw)
        IN ret' = [NoCall EXCEPT !.op = "IsReleaseExists", !.releaseName = releaseName,
                                 !.raw = raw,
                                 !.faithful =
                                     raw \in FaithfulHistory(configMaps, releaseName),
                                 !.exists = r.exists, !.err = r.err, !.panic = r.panic,
                                 !.pre = configMaps]
    /\ UNCHANGED configMaps

StatusNext ==
    \/ \E releaseName \in ReleaseNames :
        \/ CallLastReleaseStatus(releaseName)
        \/ CallIsReleaseExists(releaseName)
    \/ Return

SpecStatus == StatusInit /\ [][StatusNext /\ UNCHANGED <<valueVars, runVars, initVars>>]_vars

----------------------------------------------------------------------------
(* Calls of ListReleases on a namespace that holds more than tiller's records *)

OtherOwner == "OTHER"

\* ConfigMaps of the namespace: tiller's records, a record of another owner, a
\* ConfigMap of tiller's without release data and one without labels
NamespaceConfigMaps ==
    {TillerRecord("a", 1, "FAILED"), TillerRecord("a", 9, "FAILED"),
     TillerRecord("a", 10, "DEPLOYED"), TillerRecord("b", 1, "FAILED"),
     [name |-> CmName("a", 2),
      labels |-> [NAME |-> "a", STATUS |-> "FAILED", OWNER |-> OtherOwner],
      hasRelease |-> TRUE],
     [name |-> CmName("a", 3),
      labels |-> [NAME |-> "a", STATUS |-> "FAILED", OWNER |-> TillerOwner],
      hasRelease |-> FALSE],
     [name |-> <<"b">>, labels |-> <<>>, hasRelease |-> TRUE]}

\* the label filters of the callers
LabelSelectors ==
    {<<>>,
     [OWNER |-> OtherOwner],
     [NAME |-> "a"],
     [NAME |-> "a", OWNER |-> OtherOwner],
     [STATUS |-> "FAILED", NAME |-> "a"]}

ListInit ==
    /\ configMaps \in SUBSET NamespaceConfigMaps
    /\ ret = NoCall
    /\ NoValues
    /\ NoRun

CallListReleases(labelSelector) ==
    /\ Idle
    /\ \E listOk \in BOOLEAN :
        ret' = [NoCall EXCEPT !.op = "ListReleases", !.selector = labelSelector,
                              !.names = IF listOk
                                        THEN ListReleases(configMaps, labelSelector)
                                        ELSE <<>>,
                              !.err = IF listOk THEN NoError ELSE "configmap list error",
                              !.pre = configMaps]
    /\ UNCHANGED configMaps

ListNext ==
    \/ \E labelSelector \in LabelSelectors : CallListReleases(labelSelector)
    \/ Return

SpecList == ListInit /\ [][ListNext /\ UNCHANGED <<valueVars, runVars, initVars>>]_vars

----------------------------------------------------------------------------
(* module.go: the run of the modules *)

BeforeHelm == "BeforeHelm"
AfterHelm == "AfterHelm"
HookStages == {BeforeHelm, AfterHelm}

\* how many hooks a module has for a binding: module a has MaxHooks of each,
\* module b no BeforeHelm hook and one AfterHelm hook
HookCount(name, binding) ==
    IF name = "a" THEN MaxHooks
    ELSE IF binding = AfterHelm THEN 1 ELSE 0

\* GetModuleHooksInOrder(name, binding): the names of the module's hooks
ModuleHooksInOrder(name, binding) ==
    [i \in 1..HookCount(name, binding) |-> <<name, binding, i>>]

\* what a run does, as recorded in log
StatusEvent == <<"status", "cleanup", 0>>
DeleteEvent == <<"delete", "cleanup", 1>>
UpgradeEvent == <<"upgrade", "exec", 1>>
HookEvent(binding, i) == <<"hook", binding, i>>

\* (faulty variant) helm runs before the BeforeHelm hooks
RunStagesHelmFirst == <<"cleanup", "exec", BeforeHelm, AfterHelm>>

\* the stages of Module.run, in its order
RunStages == <<"cleanup", BeforeHelm, "exec", AfterHelm>>

NextStage(s) ==
    LET i == CHOOSE k \in 1..Len(RunStages) : RunStages[k] = s
    IN IF i = Len(RunStages) THEN "done" ELSE RunStages[i + 1]

\* (faulty variant) a failed stage does not end the run
StageAfterIgnoringError(s, err) == NextStage(s)

\* `if err != nil { return err }` after a stage, else on to the next one
StageAfter(s, err) == IF err # NoError THEN "done" ELSE NextStage(s)

\* (faulty variant) the chart is taken to be there
checkHelmChartAlways(name) == [exists |-> TRUE, err |-> NoError]

\* Module.checkHelmChart
checkHelmChart(name) ==
    IF ~chartFile[name]
    THEN [exists |-> FALSE, err |-> "chart file not found"]
    ELSE [exists |-> TRUE, err |-> NoError]

Presence(name) == IF chartFile[name] THEN "present" ELSE "absent"

\* what `helm upgrade --install` leaves in the storage: a new DEPLOYED revision
\* over the superseded one, a new FAILED revision, or nothing when it is refused
UpgradeOutcomes == {"deployed", "failed", "refused"}

HelmUpgradeEffect(cms, releaseName, outcome) ==
    LET new == LatestRevision(cms, releaseName) + 1
    IN IF outcome = "refused" THEN cms
       ELSE IF outcome = "failed"
       THEN cms \cup {TillerRecord(releaseName, new, "FAILED")}
       ELSE {IF IsHistoryRecord(cm, releaseName) /\ cm.labels["STATUS"] = "DEPLOYED"
             THEN [cm EXCEPT !.labels["STATUS"] = "SUPERSEDED"]
             ELSE cm : cm \in cms}
            \cup {TillerRecord(releaseName, new, "DEPLOYED")}

\* what a hook can do besides succeeding or failing
HookEffects ==
    {[kind |-> "none", v |-> 0], [kind |-> "create chart", v |-> 0],
     [kind |-> "remove chart", v |-> 0]}
    \cup {[kind |-> k, v |-> v] : k \in {"write global", "write module"}, v \in 1..MaxVal}

SetKey(tree, k, node) == [j \in DOMAIN tree \cup {k} |-> IF j = k THEN node ELSE tree[j]]

Snapshot(global, byName, name) == [global |-> global, module |-> ValuesOf(byName, name)]

\* the dynamic values are noted when a run leaves the BeforeHelm stage for the next
NoteDynamic(snapshot, leaving) ==
    dynAtBefore' = IF stage = BeforeHelm /\ leaving THEN snapshot ELSE dynAtBefore

\* the histories the releases of the modules start with
RunStores ==
    {A \cup B :
        A \in {{}, {TillerRecord("a", 1, "FAILED")}, {TillerRecord("a", 1, "DEPLOYED")},
               {TillerRecord("a", 1, "SUPERSEDED"), TillerRecord("a", 2, "FAILED")}},
        B \in {{}, {TillerRecord("b", 1, "FAILED")}}}

Init ==
    /\ configMaps \in RunStores
    /\ ret = NoCall
    /\ globalConfigValues = ("a" :> Scalar(0)) @@ ("b" :> Scalar(0))
    /\ globalModulesConfigValues = ("a" :> ("c" :> Scalar(0)))
    /\ kubeConfigValues = EmptyValues
    /\ kubeModulesConfigValues = <<>>
    /\ dynamicValues = EmptyValues
    /\ modulesDynamicValues = <<>>
    /\ valuesFile = <<>>
    /\ modulesOrder = <<"a", "b">>
    /\ chartFile \in [{"a", "b"} -> BOOLEAN]
    /\ cur = 0
    /\ stage = "idle"
    /\ hookIdx = 0
    /\ result = NoResult
    /\ log = <<>>
    /\ seen = NotSeen
    /\ upgradeValues = <<>>
    /\ dynAtBefore = NoSnapshot
    /\ NoModules

\* the caller takes the next module of modulesOrder and calls its run
StartModule ==
    /\ stage \in {"idle", "done"}
    /\ cur < Len(modulesOrder)
    /\ cur' = cur + 1
    /\ stage' = RunStages[1]
    /\ hookIdx' = 0
    /\ result' = NoResult
    /\ log' = <<>>
    /\ seen' = NotSeen
    /\ dynAtBefore' = NoSnapshot
    /\ UNCHANGED <<configMaps, ret, valueVars, modulesOrder, initVars, chartFile, upgradeValues>>

\* Module.cleanup
Cleanup ==
    /\ stage = "cleanup"
    /\ LET name == modulesOrder[cur]
           chart == checkHelmChart(name)
       IN /\ seen' = [seen EXCEPT !.cleanup = Presence(name)]
          /\ IF ~chart.exists /\ chart.err # NoError
             THEN /\ stage' = StageAfter(stage, NoError)
                  /\ UNCHANGED <<configMaps, result, log>>
             ELSE \E raw \in HelmHistoryOutcomes(configMaps, name, StderrSamples),
                     deleteOk \in BOOLEAN :
                    LET r == DeleteSingleFailedRevision(raw, deleteOk)
                    IN /\ deleteOk \/ r.deleteIssued
                       /\ log' = log \o <<StatusEvent>>
                                     \o (IF r.deleteIssued THEN <<DeleteEvent>> ELSE <<>>)
                       /\ configMaps' = IF r.deleteIssued /\ deleteOk
                                        THEN Purged(configMaps, name)
                                        ELSE configMaps
                       /\ IF r.panic
                          THEN /\ stage' = "crashed"
                               /\ result' = [err |-> "panic", stage |-> "cleanup",
                                             hook |-> 0]
                          ELSE /\ stage' = StageAfter(stage, r.err)
                               /\ result' = IF r.err # NoError
                                            THEN [err |-> r.err, stage |-> "cleanup",
                                                  hook |-> IF r.deleteIssued THEN 1 ELSE 0]
                                            ELSE result
    /\ hookIdx' = 0
    /\ UNCHANGED <<ret, valueVars, modulesOrder, initVars, chartFile, cur, upgradeValues, dynAtBefore>>

\* GetModuleHooksInOrder before the loop over the hooks of a binding
LookupHooks ==
    /\ stage \in HookStages
    /\ hookIdx = 0
    /\ LET name == modulesOrder[cur]
       IN \E ok \in BOOLEAN :
            /\ IF ~ok
               THEN /\ result' = [err |-> "hooks lookup error", stage |-> stage, hook |-> 0]
                    /\ stage' = StageAfter(stage, "hooks lookup error")
                    /\ hookIdx' = 0
                    /\ UNCHANGED dynAtBefore
               ELSE IF HookCount(name, stage) = 0
               THEN /\ stage' = StageAfter(stage, NoError)
                    /\ hookIdx' = 0
                    /\ NoteDynamic(Snapshot(dynamicValues, modulesDynamicValues, name), TRUE)
                    /\ UNCHANGED result
               ELSE /\ hookIdx' = 1
                    /\ UNCHANGED <<stage, result, dynAtBefore>>
    /\ UNCHANGED <<configMaps, ret, valueVars, modulesOrder, initVars, chartFile, cur, log, seen,
                   upgradeValues>>

\* one round of the loop: GetModuleHook and moduleHook.run
RunHook ==
    /\ stage \in HookStages
    /\ hookIdx >= 1
    /\ LET name == modulesOrder[cur]
           last == hookIdx = HookCount(name, stage)
       IN \/ /\ result' = [err |-> "hook not found", stage |-> stage, hook |-> hookIdx]
             /\ stage' = StageAfter(stage, "hook not found")
             /\ hookIdx' = 0
             /\ UNCHANGED <<log, dynamicValues, modulesDynamicValues, chartFile, dynAtBefore>>
          \/ /\ log' = Append(log, HookEvent(stage, hookIdx))
             /\ result' = [err |-> "hook failed", stage |-> stage, hook |-> hookIdx]
             /\ stage' = StageAfter(stage, "hook failed")
             /\ hookIdx' = 0
             /\ UNCHANGED <<dynamicValues, modulesDynamicValues, chartFile, dynAtBefore>>
          \/ \E effect \in HookEffects :
                /\ log' = Append(log, HookEvent(stage, hookIdx))
                /\ dynamicValues' =
                        IF effect.kind = "write global"
                        THEN SetKey(dynamicValues, "a", Scalar(effect.v))
                        ELSE dynamicValues
                /\ modulesDynamicValues' =
                        IF effect.kind = "write module"
                        THEN SetKey(modulesDynamicValues, name,
                                    SetKey(ValuesOf(modulesDynamicValues, name), "a",
                                           Scalar(effect.v)))
                        ELSE modulesDynamicValues
                /\ chartFile' =
                        IF effect.kind = "create chart" THEN [chartFile EXCEPT ![name] = TRUE]
                        ELSE IF effect.kind = "remove chart"
                        THEN [chartFile EXCEPT ![name] = FALSE]
                        ELSE chartFile
                /\ stage' = IF last THEN StageAfter(stage, NoError) ELSE stage
                /\ hookIdx' = IF last THEN 0 ELSE hookIdx + 1
                /\ NoteDynamic(Snapshot(dynamicValues', modulesDynamicValues', name), last)
                /\ UNCHANGED result
    /\ UNCHANGED <<configMaps, ret, staticVars, valuesFile, modulesOrder, initVars, cur, seen,
                   upgradeValues>>

\* Module.exec
Exec ==
    /\ stage = "exec"
    /\ LET name == modulesOrder[cur]
           chart == checkHelmChart(name)
       IN /\ seen' = [seen EXCEPT !.exec = Presence(name)]
          /\ IF ~chart.exists /\ chart.err # NoError
             THEN /\ stage' = StageAfter(stage, NoError)
                  /\ UNCHANGED <<configMaps, valuesFile, result, log, upgradeValues>>
             ELSE \E dumpOk \in BOOLEAN, outcome \in UpgradeOutcomes :
                    LET dumped == prepareValuesPath(name, dumpOk)
                        err == IF outcome = "deployed" THEN NoError ELSE "helm FAILED"
                    IN /\ valuesFile' = dumped.files
                       /\ IF dumped.err # NoError
                          THEN /\ outcome = "refused"
                               /\ result' = [err |-> dumped.err, stage |-> "exec",
                                             hook |-> 0]
                               /\ stage' = StageAfter(stage, dumped.err)
                               /\ UNCHANGED <<configMaps, log, upgradeValues>>
                          ELSE /\ log' = Append(log, UpgradeEvent)
                               /\ upgradeValues' =
                                     [n \in DOMAIN upgradeValues \cup {name} |->
                                        IF n = name THEN dumped.files[name]
                                        ELSE upgradeValues[n]]
                               /\ configMaps' = HelmUpgradeEffect(configMaps, name, outcome)
                               /\ result' = IF err # NoError
                                            THEN [err |-> err, stage |-> "exec", hook |-> 1]
                                            ELSE result
                               /\ stage' = StageAfter(stage, err)
    /\ hookIdx' = 0
    /\ UNCHANGED <<ret, staticVars, dynamicValues, modulesDynamicValues, modulesOrder, initVars,
                   chartFile, cur, dynAtBefore>>

Next ==
    \/ StartModule
    \/ Cleanup
    \/ LookupHooks
    \/ RunHook
    \/ Exec

Spec == Init /\ [][Next]_vars

----------------------------------------------------------------------------
(* module.go: the discovery of the modules *)

\* paths are sequences of components
WorkingDir == <<"antiopa">>
ModulesDir == WorkingDir \o <<"modules">>     \* filepath.Join(WorkingDir, "modules")
ProcessDirs == {WorkingDir, ModulesDir}

\* names of entries of the modules directory, character by character
DirNames ==
    {<<"0", "0", "1", "-", "f", "o", "o">>,
     <<"0", "1", "0", "-", "b", "a", "r">>,
     <<"0", "0", "2", "-", "b", "a", "z">>,
     <<"0", "0", "2", "-", "f", "o", "o">>,
     <<"a", "b", "c">>,
     <<"0", "1", "-", "f", "o", "o">>}
FileNames == {<<"0", "0", "3", "-", "d", "o", "c">>}

\* regexp `^[0-9][0-9][0-9]-(.*)$`.FindStringSubmatch(name): <<>> when there is
\* no match, else <<whole, group 1>>
ValidModuleNameMatch(name) ==
    IF Len(name) >= 4 /\ IsDigit(name[1]) /\ IsDigit(name[2]) /\ IsDigit(name[3])
            /\ name[4] = "-"
    THEN <<name, SubSeq(name, 5, Len(name))>>
    ELSE <<>>

\* an entry of the modules directory: a module directory can hold an `enabled`
\* executable, which exits with 0 or 1 when run, and a values.yaml, valid or not
DirEntry(name, isDir, enabled, valuesYaml) ==
    [name |-> name, isDir |-> isDir, enabled |-> enabled, valuesYaml |-> valuesYaml]

FewOf(S, n) == {X \in SUBSET S : Cardinality(X) <= n}

\* what a module directory can hold besides its hooks: an `enabled` executable,
\* a values.yaml, or an `enabled` that lets the module in and a bad values.yaml
Furniture ==
    {[enabled |-> "exit0", valuesYaml |-> "missing"],
     [enabled |-> "exit1", valuesYaml |-> "missing"],
     [enabled |-> "none", valuesYaml |-> "valid"],
     [enabled |-> "none", valuesYaml |-> "invalid"],
     [enabled |-> "exit0", valuesYaml |-> "invalid"]}

\* the entries called N, those of DOMAIN f furnished as f says
Entries(N, f) ==
    {IF e \in DOMAIN f THEN DirEntry(e, TRUE, f[e].enabled, f[e].valuesYaml)
     ELSE DirEntry(e, e \in DirNames, "none", "missing") : e \in N}

RootsOf(N) ==
    LET valid == {n \in N : n \in DirNames /\ ValidModuleNameMatch(n) # <<>>}
    IN UNION {{Entries(N, f) : f \in [F -> Furniture]} : F \in FewOf(valid, MaxFurnished)}

\* the modules directories the discovery is run on
ModulesRoots == UNION {RootsOf(N) : N \in FewOf(DirNames \cup FileNames, MaxDirs)}

\* (faulty variant) the listing comes in descending order of the names
ReadDirDescending(root) ==
    LET names == SortStrings({e.name : e \in root})
    IN [i \in 1..Len(names) |-> CHOOSE e \in root : e.name = names[Len(names) + 1 - i]]

\* ioutil.ReadDir(modulesDir): the entries, sorted by filename
ReadDir(root) ==
    LET names == SortStrings({e.name : e \in root})
    IN [i \in 1..Len(names) |-> CHOOSE e \in root : e.name = names[i]]

\* what a valid values.yaml of a module holds
ModuleFileValues == ("k" :> Scalar(1))

\* Module.setGlobalModuleConfigValues with readValuesYamlFile: the module-static
\* layers after the call and the error it returns
setGlobalModuleConfigValues(module, file, byName) ==
    IF file.valuesYaml = "missing"
    THEN [values |-> byName, err |-> NoError]
    ELSE IF file.valuesYaml = "invalid"
    THEN [values |-> byName, err |-> "bad values.yaml"]
    ELSE [values |-> [n \in DOMAIN byName \cup {module.Name} |->
                        IF n = module.Name THEN ModuleFileValues ELSE byName[n]],
          err |-> NoError]

\* what can go wrong around one initModules: the listing of the directory, the
\* reading of modules/values.yaml, the write under TempDir, the start of an
\* `enabled` executable, the first or the second initModuleHooks
Faults ==
    {[kind |-> k, at |-> 0] : k \in {"none", "readdir", "values", "temp", "start"}}
        \cup {[kind |-> "hooks", at |-> n] : n \in {1, 2}}

\* filepath.Join(m.DirectoryName, "enabled"): a relative path
EnabledScriptPath(module) == <<module.DirectoryName, "enabled">>

\* a relative path as the operating system resolves it
Resolve(dir, relative) == dir \o relative

\* os.Stat of the path of an `enabled` executable finds a file
Stat(root, path) ==
    \E e \in root :
        e.isDir /\ e.enabled # "none" /\ path = ModulesDir \o <<e.name, "enabled">>

\* (faulty variant) a predicate that exits with a non-zero code disables the module
isEnabledSilent(module, root, dir, fault) ==
    LET path == Resolve(dir, EnabledScriptPath(module))
        script == CHOOSE e \in root : path = ModulesDir \o <<e.name, "enabled">>
    IN IF ~Stat(root, path)
       THEN [enabled |-> TRUE, err |-> NoError, invoked |-> FALSE]
       ELSE IF fault.kind = "temp"
       THEN [enabled |-> FALSE, err |-> "cannot dump enabled modules", invoked |-> FALSE]
       ELSE IF fault.kind = "start"
       THEN [enabled |-> FALSE, err |-> "cannot run enabled", invoked |-> FALSE]
       ELSE IF script.enabled = "exit0"
       THEN [enabled |-> TRUE, err |-> NoError, invoked |-> TRUE]
       ELSE [enabled |-> FALSE, err |-> NoError, invoked |-> TRUE]

\* Module.isEnabled with the process in directory dir: the result, the error and
\* whether an `enabled` executable ran
isEnabled(module, root, dir, fault) ==
    LET path == Resolve(dir, EnabledScriptPath(module))
        script == CHOOSE e \in root : path = ModulesDir \o <<e.name, "enabled">>
    IN IF ~Stat(root, path)
       THEN [enabled |-> TRUE, err |-> NoError, invoked |-> FALSE]
       ELSE IF fault.kind = "temp"
       THEN [enabled |-> FALSE, err |-> "cannot dump enabled modules", invoked |-> FALSE]
       ELSE IF fault.kind = "start"
       THEN [enabled |-> FALSE, err |-> "cannot run enabled", invoked |-> FALSE]
       ELSE IF script.enabled = "exit0"
       THEN [enabled |-> TRUE, err |-> NoError, invoked |-> TRUE]
       ELSE [enabled |-> FALSE, err |-> "enabled exited non-zero", invoked |-> TRUE]

\* (faulty variant) only the first offending directory is kept
CollectFirstBad(badModulesDirs, name) ==
    IF badModulesDirs = <<>> THEN <<ModulesDir \o <<name>>>> ELSE badModulesDirs

\* badModulesDirs = append(badModulesDirs, filepath.Join(modulesDir, file.Name()))
CollectBad(badModulesDirs, name) == Append(badModulesDirs, ModulesDir \o <<name>>)

ValidationError == "bad module directory names"

\* the loop of initModules over the listing from its i-th entry on; st holds
\* the registry, the offenders and what isEnabled returned so far
RECURSIVE DiscoverLoop(_, _, _, _, _, _)
DiscoverLoop(files, i, st, root, dir, fault) ==
    IF i > Len(files)
    THEN IF Len(st.badModulesDirs) > 0
         THEN [st EXCEPT !.err = ValidationError, !.offenders = st.badModulesDirs]
         ELSE st
    ELSE IF ~files[i].isDir
    THEN DiscoverLoop(files, i + 1, st, root, dir, fault)
    ELSE IF ValidModuleNameMatch(files[i].name) = <<>>
    THEN DiscoverLoop(files, i + 1,
                      [st EXCEPT !.badModulesDirs = CollectBad(@, files[i].name)],
                      root, dir, fault)
    ELSE LET module == [Name |-> ValidModuleNameMatch(files[i].name)[2],
                        DirectoryName |-> files[i].name,
                        Path |-> ModulesDir \o <<files[i].name>>]
             layers == setGlobalModuleConfigValues(module, files[i],
                                                   st.globalModulesConfigValues).values
             gate == isEnabled(module, root, dir, fault)
             seen1 == [st EXCEPT !.globalModulesConfigValues = layers,
                                 !.gate = (module.DirectoryName :> gate) @@ @]
             registered ==
                [seen1 EXCEPT !.modulesByName = (module.Name :> module) @@ @,
                              !.modulesOrder = Append(@, module.Name)]
         IN IF gate.err # NoError
            THEN [seen1 EXCEPT !.err = gate.err]
            ELSE IF ~gate.enabled
            THEN DiscoverLoop(files, i + 1, seen1, root, dir, fault)
            ELSE IF fault.kind = "hooks"
                    /\ fault.at = Len(registered.modulesOrder) - st.before
            THEN [registered EXCEPT !.err = "cannot init module hooks"]
            ELSE DiscoverLoop(files, i + 1,
                              [registered EXCEPT !.modulesHooksOrderByName =
                                                      @ \cup {module.Name}],
                              root, dir, fault)

\* initModules: the registry it leaves and the error it returns
initModules(root, dir, order, layers, global, fault) ==
    LET reset == [modulesByName |-> <<>>, modulesHooksOrderByName |-> {},
                  modulesOrder |-> order, globalModulesConfigValues |-> layers,
                  globalConfigValues |-> global, badModulesDirs |-> <<>>,
                  gate |-> <<>>, err |-> NoError, offenders |-> <<>>,
                  before |-> Len(order)]
    IN IF fault.kind = "readdir"
       THEN [reset EXCEPT !.err = "cannot list modules directory"]
       ELSE IF fault.kind = "values"
       THEN [reset EXCEPT !.err = "bad values.yaml", !.globalConfigValues = EmptyValues]
       ELSE DiscoverLoop(ReadDir(root), 1,
                         [reset EXCEPT !.globalConfigValues = EmptyValues],
                         root, dir, fault)

DiscoveryInit ==
    /\ modulesRoot \in ModulesRoots
    /\ processDir \in ProcessDirs
    /\ modulesByName = <<>>
    /\ modulesHooksOrderByName = {}
    /\ discovery = NoDiscovery
    /\ configMaps = {}
    /\ ret = NoCall
    /\ NoValues
    /\ NotRunning

\* the manager calls initModules, and again as long as it succeeded
InitModules ==
    /\ discovery.calls < MaxDiscoveries
    /\ discovery.err = NoError
    /\ \E fault \in Faults :
        LET r == initModules(modulesRoot, processDir, modulesOrder,
                             globalModulesConfigValues, globalConfigValues, fault)
        IN /\ modulesByName' = r.modulesByName
           /\ modulesHooksOrderByName' = r.modulesHooksOrderByName
           /\ modulesOrder' = r.modulesOrder
           /\ globalModulesConfigValues' = r.globalModulesConfigValues
           /\ globalConfigValues' = r.globalConfigValues
           /\ discovery' = [calls |-> discovery.calls + 1, before |-> Len(modulesOrder),
                            err |-> r.err, offenders |-> r.offenders, gate |-> r.gate]
    /\ UNCHANGED <<configMaps, ret, kubeConfigValues, kubeModulesConfigValues,
                   dynamicValues, modulesDynamicValues, valuesFile, modulesRoot,
                   processDir, chartFile, cur, stage, hookIdx, result, log, seen,
                   upgradeValues, dynAtBefore>>

DiscoveryNext == InitModules

SpecDiscovery == DiscoveryInit /\ [][DiscoveryNext]_vars

----------------------------------------------------------------------------
(* Properties of the helm client *)

FailedRecords(cms, releaseName) ==
    {cm \in History(cms, releaseName) : cm.labels["STATUS"] = "FAILED"}

RevisionsIn(cms) == {RevisionOf(cm) : cm \in cms}

\* the release's latest record is revision 1 and FAILED
SingleFailedRevision(cms, releaseName) ==
    /\ History(cms, releaseName) # {}
    /\ LatestRevision(cms, releaseName) = 1
    /\ LatestRecord(cms, releaseName).labels["STATUS"] = "FAILED"

\* C2: DeleteSingleFailedRevision issues a delete exactly when the latest record
\* of the release, as helm shows it, is revision 1 with status FAILED; for every
\* other record helm shows, and when the release is not found, it issues no
\* delete, returns no error and leaves the storage alone; a history it could not
\* read never leads to a delete.
CleanupDeletesOnlySingleFailed ==
    ret.op = "DeleteSingleFailedRevision" /\ ~ret.panic =>
        /\ ret.deleteIssued => SingleFailedRevision(ret.pre, ret.releaseName)
        /\ ret.faithful /\ SingleFailedRevision(ret.pre, ret.releaseName)
                => ret.deleteIssued
        /\ ret.faithful /\ ~ret.deleteIssued => ret.err = NoError
        /\ ~ret.deleteIssued => configMaps = ret.pre
        /\ ret.deleteIssued /\ ret.err = NoError
                => configMaps = Purged(ret.pre, ret.releaseName)

\* C2 witness: a release whose only revision FAILED has been deleted
SingleFailedDeleted ==
    /\ ret.op = "DeleteSingleFailedRevision"
    /\ ret.deleteIssued /\ ret.err = NoError
    /\ History(ret.pre, ret.releaseName) # {}
    /\ History(configMaps, ret.releaseName) = {}

\* C3: a cleanup of a release that does not exist, helm reporting not found,
\* returns no error and issues no delete, and so does a second cleanup right
\* after it; the storage is the same before and after both.
CleanupOfAbsentReleaseIsNoOp ==
    /\ ret.op = "DeleteSingleFailedRevision" /\ ret.faithful
            /\ History(ret.pre, ret.releaseName) = {}
        => /\ ret.err = NoError /\ ~ret.deleteIssued /\ ~ret.panic
           /\ configMaps = ret.pre
           /\ ret.prev.cleanupOf = ret.releaseName =>
                /\ ret.prev.err = ret.err
                /\ ret.prev.deleteIssued = ret.deleteIssued
                /\ ret.prev.unchanged
    /\ Idle /\ ret.prev.cleanupOf # "-" => History(configMaps, ret.prev.cleanupOf) = {}

\* C3 witness: the second of two cleanups of an absent release has returned
SecondCleanupOfAbsentRelease ==
    /\ ret.op = "DeleteSingleFailedRevision" /\ ret.faithful
    /\ History(ret.pre, ret.releaseName) = {}
    /\ ret.prev.cleanupOf = ret.releaseName

\* C9: DeleteOldFailedRevisions deletes nothing but FAILED records of the release
\* below its highest FAILED revision, all of them when it returns no error; the
\* highest FAILED record is there after every call, also one that stopped on an
\* error, and with at most one FAILED record nothing is deleted.
PruneKeepsHighestFailed ==
    ret.op = "DeleteOldFailedRevisions" =>
        LET failed == FailedRecords(ret.pre, ret.releaseName)
            old == {cm \in failed : RevisionOf(cm) < Highest(RevisionsIn(failed))}
            deleted == ret.pre \ configMaps
        IN /\ configMaps \subseteq ret.pre
           /\ deleted \subseteq old
           /\ ret.err = NoError => deleted = old
           /\ failed # {} => \E cm \in configMaps :
                                /\ cm \in failed
                                /\ RevisionOf(cm) = Highest(RevisionsIn(failed))
           /\ Cardinality(failed) <= 1 => configMaps = ret.pre

\* C9 witness: of the FAILED revisions 1, 2, 3 and 5 only 5 is left
PrunedOneTwoThreeOfFive ==
    /\ ret.op = "DeleteOldFailedRevisions" /\ ret.err = NoError
    /\ RevisionsIn(FailedRecords(ret.pre, ret.releaseName)) = {1, 2, 3, 5}
    /\ RevisionsIn(ret.pre \ configMaps) = {1, 2, 3}
    /\ RevisionsIn(FailedRecords(configMaps, ret.releaseName)) = {5}

\* the first line of what Cmd returns of the stderr holds both markers
FirstLineReportsNotFound(stderr) ==
    LET text == TrimSpace(stderr)
        end == IF Contains(text, NL) THEN IndexOf(text, NL) - 1 ELSE Len(text)
    IN /\ \E i \in 1..end : text[i] = ErrorMarker
       /\ \E i \in 1..end : text[i] = NotFoundMarker

\* C10: when the history command fails, LastReleaseStatus returns an error, and
\* the revision "0" exactly when the first line of the stderr that Cmd hands it
\* holds both the error marker and the not-found marker; otherwise the revision
\* is not "0".
NotFoundIsDistinct ==
    ret.op = "LastReleaseStatus" /\ ret.raw.failed =>
        /\ ret.err # NoError /\ ~ret.panic
        /\ ret.revision = <<"0">> <=> FirstLineReportsNotFound(ret.raw.stderr)
        /\ ret.revision = <<"0">> <=> ret.err = "release not found"

\* C10 witness: a failure whose stderr names both markers, but not on its first
\* line, has been reported as a failure other than not found
MarkersOnLaterLine ==
    /\ ret.op = "LastReleaseStatus" /\ ret.raw.failed
    /\ Contains(ret.raw.stderr, ErrorMarker) /\ Contains(ret.raw.stderr, NotFoundMarker)
    /\ ret.revision # <<"0">>

\* the history command exited with code zero and the last line of what Cmd
\* returns of its output has at least three tab-separated fields
HistoryParses(raw) ==
    LET text == TrimSpace(raw.stdout)
        lines == Split(text, NL)
        lastLine == lines[Len(lines)]
    IN ~raw.failed /\ Cardinality({i \in 1..Len(lastLine) : lastLine[i] = TAB}) >= 2

\* C11: IsReleaseExists returns (false, nil) when the status query reports not
\* found, (true, nil) when the status query succeeds, and (false, the error) for
\* every other failure of the status query; it never returns true with an error.
ReleaseExistsFollowsStatus ==
    ret.op = "IsReleaseExists" /\ ~ret.panic =>
        /\ ret.raw.failed /\ FirstLineReportsNotFound(ret.raw.stderr)
                => ~ret.exists /\ ret.err = NoError
        /\ ret.raw.failed /\ ~FirstLineReportsNotFound(ret.raw.stderr)
                => ~ret.exists /\ ret.err = "cannot get history"
        /\ HistoryParses(ret.raw) => ret.exists /\ ret.err = NoError
        /\ ~(ret.exists /\ ret.err # NoError)

\* C11 witness: a failure that is not a not-found report, although its stderr
\* names both markers, came back as an error and not as "does not exist"
OtherFailurePropagated ==
    /\ ret.op = "IsReleaseExists" /\ ret.raw.failed
    /\ Contains(ret.raw.stderr, ErrorMarker) /\ Contains(ret.raw.stderr, NotFoundMarker)
    /\ ~ret.exists /\ ret.err = "cannot get history"

\* C12 (as claimed): when the history command exits with code zero and the last
\* line of its output has fewer than three tab-separated fields, LastReleaseStatus
\* returns an error and does not crash.
UnparsableHistoryIsAnError ==
    ret.op = "LastReleaseStatus" /\ ~ret.raw.failed /\ ~HistoryParses(ret.raw) =>
        ret.err # NoError /\ ~ret.panic

\* the records of cms that tiller owns, that hold release data and that carry
\* every label of the filter other than OWNER
TillerReleasesFor(cms, labelSelector) ==
    {cm \in cms :
        /\ cm.hasRelease
        /\ "OWNER" \in DOMAIN cm.labels /\ cm.labels["OWNER"] = TillerOwner
        /\ \A k \in DOMAIN labelSelector \ {"OWNER"} :
                k \in DOMAIN cm.labels /\ cm.labels[k] = labelSelector[k]}

\* C19: a ListReleases that succeeds returns the names of exactly the records
\* that are owned by TILLER, hold release data and match the caller's filter
\* (whose own OWNER, if any, is overridden), in ascending lexicographic order.
ListConstrainedToTillerSorted ==
    ret.op = "ListReleases" /\ ret.err = NoError =>
        /\ Range(ret.names) = {cm.name : cm \in TillerReleasesFor(ret.pre, ret.selector)}
        /\ \A i, j \in 1..Len(ret.names) : i < j => StrLess(ret.names[i], ret.names[j])

\* C19 witness: asked for another owner's records of release a, the listing
\* left that owner's record and the one without release data out and gave
\* tiller's a.v10 before a.v9
OtherOwnerOverridden ==
    /\ ret.op = "ListReleases" /\ ret.err = NoError
    /\ ret.selector = [NAME |-> "a", OWNER |-> OtherOwner]
    /\ \E cm \in ret.pre : cm.name = CmName("a", 2)
    /\ \E cm \in ret.pre : cm.name = CmName("a", 3)
    /\ ret.names = <<CmName("a", 10), CmName("a", 9)>>

----------------------------------------------------------------------------
(* Properties of the composition of values *)

\* the leaves of a mapping: pairs <<path, scalar>>
Leaves(tree) ==
    UNION {IF tree[k].isMap
           THEN {<<<<k, j>>, tree[k].map[j].scalar>> : j \in DOMAIN tree[k].map}
           ELSE {<<<<k>>, tree[k].scalar>>} : k \in DOMAIN tree}

\* the six layers of a module, lowest first
SixLayers(name) ==
    <<globalConfigValues, ValuesOf(globalModulesConfigValues, name),
      kubeConfigValues, ValuesOf(kubeModulesConfigValues, name),
      dynamicValues, ValuesOf(modulesDynamicValues, name)>>

\* the leaves of the first i layers merged one after the other: a layer's leaves,
\* and what they leave of the leaves below (those not at, above or below them)
RECURSIVE EffectiveLeaves(_, _)
EffectiveLeaves(layers, i) ==
    IF i = 0 THEN {}
    ELSE Leaves(layers[i])
            \cup {l \in EffectiveLeaves(layers, i - 1) :
                    \A h \in Leaves(layers[i]) : ~Conflict(l[1], h[1])}

\* C8: the values composed for a module hold, for every leaf path, the scalar of
\* the highest of the six layers (global static, module static, cluster global,
\* cluster module, dynamic global, dynamic module) that has a leaf there;
\* the layers are merged one after the other in that order, a layer replacing
\* what is at, above or below each of its leaves and keeping the rest.
ValuesMergeSixLayers ==
    \A name \in DOMAIN valuesFile :
        /\ Leaves(valuesFile[name]) = EffectiveLeaves(SixLayers(name), 6)
        /\ \A l \in Leaves(valuesFile[name]) :
               \E i \in LayerNumbers :
                   /\ l \in Leaves(SixLayers(name)[i])
                   /\ \A j \in (i + 1)..6 :
                          \A h \in Leaves(SixLayers(name)[j]) : h[1] # l[1]

\* C8 witness: layer 1 {a: {x, y}} under layer 6 {a: {y}} gives {a: {x: 1, y: 6}}
NestedMappingMerged ==
    /\ "a" \in DOMAIN valuesFile
    /\ globalConfigValues = ("a" :> Mapping(("x" :> Scalar(1)) @@ ("y" :> Scalar(1))))
    /\ ValuesOf(modulesDynamicValues, "a") = ("a" :> Mapping("y" :> Scalar(6)))
    /\ valuesFile["a"] = ("a" :> Mapping(("x" :> Scalar(1)) @@ ("y" :> Scalar(6))))

----------------------------------------------------------------------------
(* Properties of Module.run *)

Current == modulesOrder[cur]
Running == cur >= 1
Returned == Running /\ stage = "done"
Logged(event) == \E i \in 1..Len(log) : log[i] = event
SomeHookLogged == \E i \in 1..Len(log) : log[i][1] = "hook"

HookEvents(name, binding) ==
    [i \in 1..HookCount(name, binding) |-> HookEvent(binding, i)]

\* cleanup, BeforeHelm hooks, one upgrade, AfterHelm hooks
FullOrder(name, withDelete) ==
    <<StatusEvent>> \o (IF withDelete THEN <<DeleteEvent>> ELSE <<>>)
        \o HookEvents(name, BeforeHelm) \o <<UpgradeEvent>> \o HookEvents(name, AfterHelm)

ChartPresentThroughout == seen.cleanup = "present" /\ seen.exec = "present"
ChartAbsentThroughout == seen.cleanup = "absent" /\ seen.exec \in {"absent", "unchecked"}

\* C1: a run that returned no error, of a module whose chart was there when
\* cleanup and exec looked, did exactly this, in this order: the status check
\* (and the delete, if any), every BeforeHelm hook in order, one upgrade, every
\* AfterHelm hook in order.
RunInOrder ==
    Returned /\ result.err = NoError /\ ChartPresentThroughout =>
        log \in {FullOrder(Current, FALSE), FullOrder(Current, TRUE)}

\* C1 witness: module a ran through, its failed first revision deleted on the way
RanThroughWithDelete ==
    /\ Returned /\ Current = "a" /\ result.err = NoError
    /\ log = FullOrder("a", TRUE)

\* C4: nothing is asked of helm for a module whose chart is not there: no status
\* check and no delete when cleanup found no chart, no upgrade when exec found
\* none; and a run that never found the chart returns no error but a hook's.
ChartAbsentNoBackend ==
    Running =>
        /\ seen.cleanup = "absent" => ~Logged(StatusEvent) /\ ~Logged(DeleteEvent)
        /\ seen.exec = "absent" => ~Logged(UpgradeEvent)
        /\ Returned /\ ChartAbsentThroughout =>
               /\ result.stage \notin {"cleanup", "exec"}
               /\ result.err \in {NoError, "hook failed", "hook not found",
                                  "hooks lookup error"}

\* C4 witness: a run without a chart returned no error and left the failed first
\* revision of the module's release where it was
ReturnedWithoutChart ==
    /\ Returned /\ ChartAbsentThroughout /\ seen.exec = "absent"
    /\ result.err = NoError
    /\ SingleFailedRevision(configMaps, Current)

StagePlace(s) ==
    IF s = "cleanup" THEN 1 ELSE IF s = BeforeHelm THEN 2 ELSE IF s = "exec" THEN 3 ELSE 4
Place(s, i) == StagePlace(s) * (MaxHooks + 2) + i

\* the errors that come from an action that was carried out
ActionErrors ==
    {"cannot get history", "helm delete --purge invocation error", "hook failed",
     "helm FAILED", "panic"}

\* C6: the first failing stage ends the run with its error: when a run has
\* returned an error (or crashed), nothing was done that comes after the point
\* of the failure in the order cleanup, BeforeHelm hooks, upgrade, AfterHelm
\* hooks, and a failed action is the last thing done.
FirstFailureEndsRun ==
    Running /\ stage \in {"done", "crashed"} /\ result.err # NoError =>
        /\ \A i \in 1..Len(log) :
               Place(log[i][2], log[i][3]) <= Place(result.stage, result.hook)
        /\ result.err \in ActionErrors =>
               /\ log # <<>>
               /\ log[Len(log)][2] = result.stage
               /\ log[Len(log)][3] = result.hook
        /\ result.err \notin ActionErrors =>
               \A i \in 1..Len(log) :
                   Place(log[i][2], log[i][3]) < Place(result.stage, result.hook)
                       \/ (log[i][2] = result.stage /\ log[i][3] < result.hook)

\* C6 witness: the first BeforeHelm hook of module a failed and nothing followed
FirstBeforeHookFailed ==
    /\ Returned /\ Current = "a"
    /\ result = [err |-> "hook failed", stage |-> BeforeHelm, hook |-> 1]
    /\ log[Len(log)] = HookEvent(BeforeHelm, 1)

\* C7: the values file an upgrade was given holds the six layers as they stood
\* when the module's BeforeHelm hooks were through: what these hooks and the
\* hooks of the modules before wrote is in it, what is written later is not.
UpgradeValuesAfterBeforeHooks ==
    Running /\ Logged(UpgradeEvent) =>
        /\ Current \in DOMAIN upgradeValues
        /\ Leaves(upgradeValues[Current]) =
               EffectiveLeaves(<<globalConfigValues,
                                 ValuesOf(globalModulesConfigValues, Current),
                                 kubeConfigValues,
                                 ValuesOf(kubeModulesConfigValues, Current),
                                 dynAtBefore.global,
                                 dynAtBefore.module>>, 6)

\* C7 witness: module b was upgraded with the value a hook of module a wrote, and
\* its AfterHelm hook has written another one since
LaterWriteNotInUpgrade ==
    /\ Returned /\ Current = "b" /\ Logged(UpgradeEvent)
    /\ <<<<"a">>, 1>> \in Leaves(upgradeValues["b"])
    /\ <<<<"a">>, 2>> \in Leaves(dynamicValues)
    /\ ValuesOf(modulesDynamicValues, "b") = EmptyValues

\* C21 (as claimed): within one run an upgrade is invoked only after the status
\* check of cleanup, and exec finds the chart as cleanup found it, whatever the
\* BeforeHelm hooks did to the chart file in between.
UpgradeOnlyAfterStatusCheck ==
    Running =>
        /\ \A i \in 1..Len(log) :
                log[i] = UpgradeEvent => \E j \in 1..(i - 1) : log[j] = StatusEvent
        /\ seen.exec # "unchecked" => seen.exec = seen.cleanup

----------------------------------------------------------------------------
(* Properties of the discovery of the modules *)

Discovered == discovery.calls > 0
Succeeded == Discovered /\ discovery.err = NoError

ValidDirs(root) == {e \in root : e.isDir /\ ValidModuleNameMatch(e.name) # <<>>}
BadDirs(root) == {e \in root : e.isDir /\ ValidModuleNameMatch(e.name) = <<>>}
EntryNamed(root, name) == CHOOSE e \in root : e.name = name

\* the module name a directory name carries after its prefix
NameAfterPrefix(dirName) == SubSeq(dirName, 5, Len(dirName))

\* what the last initModules appended to modulesOrder
Appended == SubSeq(modulesOrder, discovery.before + 1, Len(modulesOrder))

\* the errors that end initModules before it is through the listing
EarlierErrors ==
    {"cannot list modules directory", "bad values.yaml", "cannot dump enabled modules",
     "cannot run enabled", "enabled exited non-zero", "cannot init module hooks"}

Foo1 == <<"0", "0", "1", "-", "f", "o", "o">>
Baz2 == <<"0", "0", "2", "-", "b", "a", "z">>
Bar10 == <<"0", "1", "0", "-", "b", "a", "r">>

\* C13: after a successful initModules the names it put on modulesOrder are
\* those of the module directories in ascending order of the directory names,
\* and after the first one this is the whole of modulesOrder.
OrderFollowsDirectoryNames ==
    Succeeded =>
        LET dirs == SortStrings({e.name : e \in ValidDirs(modulesRoot)})
        IN /\ Appended = [i \in 1..Len(dirs) |-> NameAfterPrefix(dirs[i])]
           /\ \A i, j \in 1..Len(Appended) :
                i < j => \E d1, d2 \in ValidDirs(modulesRoot) :
                            /\ NameAfterPrefix(d1.name) = Appended[i]
                            /\ NameAfterPrefix(d2.name) = Appended[j]
                            /\ StrLess(d1.name, d2.name)
           /\ discovery.calls = 1 => modulesOrder = Appended

\* C13 witness: 001-foo, 010-bar and 002-baz were discovered as foo, baz, bar
FooBazBar ==
    /\ Succeeded /\ discovery.calls = 1
    /\ {e.name : e \in modulesRoot} = {Foo1, Bar10, Baz2}
    /\ modulesOrder = <<<<"f", "o", "o">>, <<"b", "a", "z">>, <<"b", "a", "r">>>>

\* C14: with a subdirectory that does not match the pattern initModules never
\* succeeds, and unless an earlier error ended it before the end of the listing
\* it returns the validation error, which lists every offending directory and
\* no other, wherever the offenders stand among the valid directories.
AllOffendersEnumerated ==
    Discovered =>
        LET bad == SortStrings({e.name : e \in BadDirs(modulesRoot)})
        IN /\ BadDirs(modulesRoot) # {} =>
                \/ discovery.err \in EarlierErrors
                \/ discovery.err = ValidationError
           /\ discovery.err = ValidationError =>
                /\ BadDirs(modulesRoot) # {}
                /\ Range(discovery.offenders) =
                        {ModulesDir \o <<e.name>> : e \in BadDirs(modulesRoot)}
                /\ discovery.offenders = [i \in 1..Len(bad) |-> ModulesDir \o <<bad[i]>>]

\* C14 witness: 01-foo and abc were both reported, the valid 010-bar standing
\* between them in the listing
TwoOffendersAroundValid ==
    /\ discovery.err = ValidationError
    /\ Bar10 \in {e.name : e \in modulesRoot}
    /\ discovery.offenders = <<ModulesDir \o <<<<"0", "1", "-", "f", "o", "o">>>>,
                               ModulesDir \o <<<<"a", "b", "c">>>>>>

\* C15 (as claimed): after an initModules that failed with the validation error
\* no module of it is registered in modulesByName or on modulesOrder and no
\* hook of it is initialised.
ValidationErrorLeavesNoModule ==
    discovery.err = ValidationError =>
        /\ DOMAIN modulesByName = {}
        /\ Appended = <<>>
        /\ modulesHooksOrderByName = {}

\* C16: isEnabled never returns "disabled" without an error; it returns enabled
\* for a module without predicate and for one whose predicate ran and exited
\* with zero; a predicate that exited non-zero or could not be run gives an
\* error, which initModules returns without registering the module.
EnabledNeverSilentlyDisabled ==
    Discovered =>
        \A d \in DOMAIN discovery.gate :
            LET g == discovery.gate[d]
                e == EntryNamed(modulesRoot, d)
            IN /\ ~(~g.enabled /\ g.err = NoError)
               /\ e.enabled = "none" => g.enabled /\ g.err = NoError
               /\ g.invoked /\ e.enabled = "exit0" => g.enabled /\ g.err = NoError
               /\ g.invoked /\ e.enabled = "exit1" => g.err # NoError
               /\ g.err # NoError =>
                    /\ discovery.err = g.err
                    /\ \A n \in DOMAIN modulesByName : modulesByName[n].DirectoryName # d

\* C16 witness: a predicate ran, exited non-zero, and initModules returned its
\* error after it had registered another module
PredicateFailureReported ==
    /\ Discovered
    /\ \E d \in DOMAIN discovery.gate :
        /\ discovery.gate[d].invoked
        /\ discovery.gate[d].err = "enabled exited non-zero"
    /\ discovery.err = "enabled exited non-zero"
    /\ DOMAIN modulesByName # {}

\* C17 (as claimed): whatever the working directory of the process, a module
\* whose own directory holds an `enabled` executable is registered only after
\* that executable was invoked and exited with zero.
EnabledScriptGatesInclusion ==
    Discovered =>
        \A n \in DOMAIN modulesByName :
            LET e == EntryNamed(modulesRoot, modulesByName[n].DirectoryName)
            IN e.enabled # "none" =>
                /\ discovery.gate[e.name].invoked
                /\ e.enabled = "exit0"

\* where no module directory holds a values.yaml, the first discovery leaves
\* every module-static layer empty
MissingValuesFilesGiveNoLayer ==
    discovery.calls = 1 /\ (\A e \in modulesRoot : e.valuesYaml = "missing") =>
        \A n \in DOMAIN modulesByName :
            ValuesOf(globalModulesConfigValues, n) = EmptyValues

\* C18 (as claimed): initModules fails with the parse error when the values.yaml
\* of a module it gets to is not valid, and a missing values.yaml is no error
\* and leaves the module's static layer empty.
BadValuesFileFailsDiscovery ==
    Discovered =>
        /\ \A d \in DOMAIN discovery.gate :
                EntryNamed(modulesRoot, d).valuesYaml = "invalid"
                    => discovery.err = "bad values.yaml"
        /\ MissingValuesFilesGiveNoLayer

\* C20 (as claimed): after a successful initModules no name is twice on
\* modulesOrder and the names on it are exactly the keys of modulesByName.
OrderMatchesRegistry ==
    Succeeded =>
        /\ \A i, j \in 1..Len(modulesOrder) : i # j => modulesOrder[i] # modulesOrder[j]
        /\ Range(modulesOrder) = DOMAIN modulesByName

====
